---- MODULE Spec2Model ----
(***************************************************************************)
(* Model of shimmingtoolbox/cli/b0shim.py: the static, realtime and        *)
(* define_slices command line handlers, the coil loading with its bound    *)
(* adjustment, and the per-coil output loop.                               *)
(*                                                                         *)
(* Coefficients, bounds and field values are integers.  Slice indices are  *)
(* 0-based as in the source; sequences are 1-based, so element i of a      *)
(* python list is element i+1 of the sequence that models it.              *)
(***************************************************************************)
EXTENDS Integers, Sequences, FiniteSets, TLC

\* ------------------------------------------------------------------ bounds
MaxSlices == 6
MaxFactor == 4
MaxInit == 1
MaxField == 1
MaxCustom == 2
MaxAnatSlices == 2
MaxKernel == 4
MaxExtent == 2
MaxTime == 3
MaxPressure == 2
MaxGroups == 4
MaxCoef == 1
MaxSaved == 3

\* --------------------------------------------------------------- constants
\* a 1st order scanner coil has 4 channels: f0, x, y, z
FirstOrderChannels == 4

\* --mask-dilation-kernel-size: default='3'
DefaultKernelSize == 3

\* dim_info[2] != 2: the slice encode direction must be the 3rd array axis
SliceAxis == 2

\* ----------------------------------------------------------------- helpers
Min(a, b) == IF a <= b THEN a ELSE b

Max(a, b) == IF a >= b THEN a ELSE b

\* python range(a, b) as a tuple
RangeSeq(a, b) == [i \in 1..Max(b - a, 0) |-> a + i - 1]

CeilDiv(a, b) == (a + b - 1) \div b

Elems(s) == {s[i] : i \in 1..Len(s)}

Methods == {"sequential", "interleaved", "volume"}

\* ------------------------------------------------ SliceGroupScheduler (4.1)
\* groups are consecutive chunks of size factor; the last one may be partial
SequentialGroups(n, f) ==
    [j \in 1..CeilDiv(n, f) |-> RangeSeq((j - 1) * f, Min(j * f, n))]

\* group k holds k, k+factor, k+2*factor, ... below n, for k in [0, factor)
InterleavedGroups(n, f) ==
    [k \in 1..f |-> [i \in 1..CeilDiv(n - (k - 1), f) |-> (k - 1) + (i - 1) * f]]

\* one group with every slice; factor is not read
VolumeGroups(n) == << RangeSeq(0, n) >>

\* the check without the test of the slice count
SliceCountUnchecked(n, f) == f >= 1

\* factor >= 1 and totalSlices >= 1, InvalidArgument otherwise
define_slices_valid(n, f) == n >= 1 /\ f >= 1

define_slices(n, f, m) ==
    CASE m = "sequential" -> SequentialGroups(n, f)
      [] m = "interleaved" -> InterleavedGroups(n, f)
      [] m = "volume" -> VolumeGroups(n)

\* --------------------------------------------------------------- variables
VARIABLES
    cli,            \* which command runs: "define_slices", "static", "realtime"
    pc,             \* position of the command
    n_slices,       \* number of slices (3rd dim of the anat, or --slices)
    slice_factor,   \* --slice-factor / --factor
    slices,         \* --slices / --method: the slice ordering
    fname_is_json,  \* define_slices: fname_output[-5:] == '.json'
    list_slices,    \* the slice groups, << >> until defined
    json_out,       \* define_slices: what json.dump wrote, "none" until then
    error,          \* the exception that ended the command, NoError if none
    method,               \* --optimizer-method
    scanner_coil_order,   \* --scanner-coil-order, as an integer
    output_value_format,  \* --output-value-format
    o_format_coil,        \* static: --output-file-format-coil
    o_format_sph,         \* static: --output-file-format-scanner
    o_format,             \* realtime: --output-file-format
    coils,                \* --coil ...: the channel count of each custom coil
    dilation_kernel_size, \* --mask-dilation-kernel-size
    fmap_orig_shape,      \* nii_fmap_orig.shape: the field map file as stored
    dim_info,             \* nii_anat.header.get_dim_info()[2]
    fname_json_isfile,    \* os.path.isfile(fname_json) of the fieldmap json
    verbose,              \* --verbose
    logger_level,         \* the level of the loggers, "warning" until set
    path_output_isdir,    \* the output directory exists
    nii_fmap_shape,       \* shape of the field map _load_fmap returned, << >> before
    fmap,                 \* the field map values: one slope per time point
    constraints_file,     \* coef_channel_minmax of --scanner-coil-constraints
    json_file,            \* the fieldmap json on disk, NoJson until it is read
    json_fm_data,         \* json_fm_data: the dictionary loaded from the json
    json_coefs,           \* the list _get_current_shim_settings returned
    initial_coefs,        \* Tx + shim settings found in the fieldmap json
    sph_contraints,       \* the loaded scanner constraints, "unread" until then
    list_coils,           \* the Coil objects, custom coils then the scanner coil
    coefs,                \* static coefficient table: rows = groups, cols = channels
    coefs_riro,           \* realtime: the riro coefficient table
    pmu,                  \* realtime: the pressure matched to each time point
    mean_p,               \* realtime: mean pressure returned by the sequencer
    p_rms,                \* realtime: T * p_rms^2 of the pressure, an integer
    fitted,               \* the slice groups whose fit has completed
    i_coil,               \* output loop: number of coils already processed
    end_channel,          \* output loop: end column of the last coil
    json_anat_data,       \* Manufacturer of the anat json, "unread" until read
    anat_orient,          \* orientation phys_to_gradient_cs reads, << >> before
    written               \* the text files written so far, in writing order

slicevars == << n_slices, slice_factor, slices, fname_is_json >>

\* the arguments that no step changes
clivars == << method, scanner_coil_order, output_value_format, o_format_coil,
             o_format_sph, o_format, coils, constraints_file,
             dilation_kernel_size, fmap_orig_shape, dim_info,
             fname_json_isfile, verbose >>

\* what the commands prepare before they read their inputs
envvars == << logger_level, path_output_isdir >>

\* the metadata of the field map: on disk, in memory, and the list read from it
jsonvars == << json_file, json_fm_data, json_coefs >>

\* the arguments, and what the first step loads from the input files
argvars == << clivars, nii_fmap_shape, fmap, initial_coefs >>

\* what the sequencers return
seqvars == << pmu, mean_p, p_rms, fitted >>

loopvars == << coefs, coefs_riro, seqvars, i_coil, end_channel, json_anat_data,
               anat_orient, written >>

vars == << cli, pc, slicevars, list_slices, json_out, error, argvars, envvars,
           jsonvars, sph_contraints, list_coils, loopvars >>

Verbosities == {"info", "debug"}

\* before set_all_loggers and create_output_dir
Unprepared == logger_level = "warning" /\ path_output_isdir = FALSE

\* after set_all_loggers(verbose) and create_output_dir(path_output)
Prepared == logger_level = verbose /\ path_output_isdir = TRUE

\* set_all_loggers(verbose); create_output_dir(path_output)
Prepare == logger_level' = verbose /\ path_output_isdir' = TRUE

\* ------------------------------------------------ _get_current_shim_settings
\* the keys of the fieldmap json the commands read; ImagingFrequency is held
\* in tenths of Hz, so that ImagingFrequency * 1e6 has one decimal
JsonData(freq, settings) == [ImagingFrequency |-> freq, ShimSetting |-> settings]

NoJson == JsonData(0, << >>)

\* int(json_data['ImagingFrequency'] * 1e6): the decimal is cut off
IntOfF0(freq) == IF freq >= 0 THEN freq \div 10 ELSE -((-freq) \div 10)

\* current_coefs is json_data['ShimSetting'] itself: insert(0, int(f0)) puts
\* f0 into the list of the dictionary, and that list is what is returned
get_current_shim_settings(json_data) ==
    [returned |-> << IntOfF0(json_data.ImagingFrequency) >>
                      \o json_data.ShimSetting,
     json_data |-> [json_data EXCEPT
                       !.ShimSetting = << IntOfF0(json_data.ImagingFrequency) >>
                                           \o json_data.ShimSetting]]

\* the fieldmap json that gives the initial coefficients ic: the frequency
\* ic[0] in Hz and one shim setting per other channel. convert_to_mp is not
\* modelled: the settings of the file are written with the numbers they
\* convert to
JsonFileOf(ic) ==
    JsonData(10 * (IF Len(ic) > 0 THEN ic[1] ELSE 0),
             IF Len(ic) > 0 THEN Tail(ic) ELSE << >>)

\* before json.load(open(fname_json))
JsonNotLoaded ==
    json_file = NoJson /\ json_fm_data = NoJson /\ json_coefs = << >>

\* after json_coefs = _get_current_shim_settings(json_fm_data), and
\* initial_coefs = [json_coefs[0]] + converted_coefs
JsonLoaded ==
    /\ json_file = JsonFileOf(initial_coefs)
    /\ json_fm_data = get_current_shim_settings(json_file).json_data
    /\ json_coefs = get_current_shim_settings(json_file).returned

NoError == [kind |-> "none"]

\* ------------------------------------------------------- define_slices_cli
\* the call with the slice count and the factor exchanged
DefineSlicesCallSwapped(n, f, m) == define_slices(f, n, m)

\* the call with factor and method left to their defaults (1, 'sequential')
DefineSlicesCallDefaults(n, f, m) == define_slices(n, 1, "sequential")

\* list_slices = define_slices(n_slices, factor, method)
DefineSlicesCall(n, f, m) == define_slices(n, f, m)

DefineSlicesInvalid ==
    /\ cli = "define_slices" /\ pc = "start"
    /\ ~define_slices_valid(n_slices, slice_factor)
    /\ pc' = "failed"
    /\ error' = [kind |-> "InvalidArgument"]
    /\ UNCHANGED << cli, envvars, jsonvars,
                    slicevars, list_slices, json_out, argvars,
                    sph_contraints, list_coils, loopvars >>

DefineSlicesNotJson ==
    /\ cli = "define_slices" /\ pc = "start"
    /\ define_slices_valid(n_slices, slice_factor)
    /\ ~fname_is_json
    /\ list_slices' = DefineSlicesCall(n_slices, slice_factor, slices)
    /\ pc' = "failed"
    /\ error' = [kind |-> "ValueError"]
    /\ UNCHANGED << cli, envvars, jsonvars,
                    slicevars, json_out, argvars, sph_contraints,
                    list_coils, loopvars >>

DefineSlicesWrite ==
    /\ cli = "define_slices" /\ pc = "start"
    /\ define_slices_valid(n_slices, slice_factor)
    /\ fname_is_json
    /\ list_slices' = DefineSlicesCall(n_slices, slice_factor, slices)
    /\ json_out' = list_slices'
    /\ pc' = "done"
    /\ path_output_isdir' = TRUE
    /\ UNCHANGED << cli, logger_level, jsonvars, slicevars, error, argvars,
                    sph_contraints, list_coils, loopvars >>

\* the state of the shim commands while another command runs
IdleShim ==
    /\ verbose = "info"
    /\ method = "least_squares"
    /\ scanner_coil_order = -1
    /\ output_value_format = "delta"
    /\ o_format_coil = "unused"
    /\ o_format_sph = "unused"
    /\ o_format = "unused"
    /\ coils = << >>
    /\ dilation_kernel_size = DefaultKernelSize
    /\ fmap_orig_shape = << >>
    /\ dim_info = SliceAxis
    /\ fname_json_isfile = FALSE
    /\ nii_fmap_shape = << >>
    /\ fmap = << >>
    /\ constraints_file = << >>
    /\ initial_coefs = << >>
    /\ JsonNotLoaded
    /\ sph_contraints = "unread"
    /\ list_coils = << >>
    /\ coefs = << >>
    /\ coefs_riro = << >>
    /\ pmu = << >>
    /\ mean_p = 0
    /\ p_rms = 0
    /\ fitted = {}
    /\ i_coil = 0
    /\ end_channel = 0
    /\ json_anat_data = "unread"
    /\ anat_orient = << >>
    /\ written = << >>

InitSlices ==
    /\ cli = "define_slices"
    /\ pc = "start"
    /\ Unprepared
    /\ n_slices \in 0..MaxSlices
    /\ slice_factor \in (-1)..MaxFactor
    /\ slices \in Methods
    /\ fname_is_json \in BOOLEAN
    /\ list_slices = << >>
    /\ json_out = "none"
    /\ error = NoError
    /\ IdleShim

NextSlices == DefineSlicesInvalid \/ DefineSlicesNotJson \/ DefineSlicesWrite

SpecSlices == InitSlices /\ [][NextSlices]_vars

\* ------------------------------------------------------------ coil objects
\* Coil(profiles, affine, constraints): a custom coil of n channels with the
\* hardware bounds of its constraints file
Coil(n) ==
    [kind |-> "Coil", n_channels |-> n,
     coef_channel_minmax |-> [c \in 1..n |-> <<-2, 2>>]]

\* channels of a scanner coil of the given order: orders 0..order
ScannerChannels(order) == (order + 1) * (order + 1)

\* ScannerCoil('ras', shape, affine, constraints, order)
ScannerCoil(constraints, order) ==
    [kind |-> "ScannerCoil", n_channels |-> ScannerChannels(order),
     coef_channel_minmax |-> constraints]

\* BoundsAdjuster (4.2): delta bounds = absolute bounds - initial coefficient
new_bounds_from_currents(currents, old_bounds) ==
    [i \in 1..Len(old_bounds) |->
        << old_bounds[i][1] - currents[i], old_bounds[i][2] - currents[i] >>]

\* ------------------------------------------------------------- _load_coils
SetMin(S) == CHOOSE x \in S : \A y \in S : x <= y

\* the comparison with both ends excluded
OutsideStrict(lo, x, hi) == ~(lo < x /\ x < hi)

\* not (bounds[i][0] <= coefs[i] <= bounds[i][1])
Outside(lo, x, hi) == ~(lo <= x /\ x <= hi)

\* _initial_in_bounds: the exception it raises, NoError when it returns
initial_in_bounds(init, bounds) ==
    IF Len(init) # Len(bounds)
    THEN [kind |-> "RuntimeError", what |-> "length"]
    ELSE LET bad == {i \in 1..Len(bounds) :
                        Outside(bounds[i][1], init[i], bounds[i][2])}
         IN  IF bad # {}
             THEN [kind |-> "RuntimeError", what |-> "outside",
                   bounds |-> bounds[SetMin(bad)],
                   initial |-> init[SetMin(bad)]]
             ELSE NoError

\* the bounds left as read from the constraints file
KeptConstraints(init, bounds) == bounds

\* sph_contraints['coef_channel_minmax'] =
\*     new_bounds_from_currents(np.array([initial_coefs]), ...)[0]
AdjustedConstraints(init, bounds) == new_bounds_from_currents(init, bounds)

\* for coil in coils: list_coils.append(Coil(...))
CustomCoils == [i \in 1..Len(coils) |-> Coil(coils[i])]

HasScanner == 0 <= scanner_coil_order /\ scanner_coil_order <= 2

LoadCoilsOutOfBounds ==
    /\ cli \in {"static", "realtime"} /\ pc = "load_coils"
    /\ HasScanner
    /\ initial_in_bounds(initial_coefs, constraints_file) # NoError
    /\ sph_contraints' = constraints_file
    /\ list_coils' = CustomCoils
    /\ error' = initial_in_bounds(initial_coefs, constraints_file)
    /\ pc' = "failed"
    /\ UNCHANGED << cli, envvars, jsonvars,
                    slicevars, list_slices, json_out, argvars, loopvars >>

LoadCoilsNoCoil ==
    /\ cli \in {"static", "realtime"} /\ pc = "load_coils"
    /\ ~HasScanner
    /\ Len(coils) = 0
    /\ list_coils' = CustomCoils
    /\ error' = [kind |-> "RuntimeError", what |-> "no coil"]
    /\ pc' = "failed"
    /\ UNCHANGED << cli, envvars, jsonvars,
                    slicevars, list_slices, json_out, argvars,
                    sph_contraints, loopvars >>

LoadCoilsCustomOnly ==
    /\ cli \in {"static", "realtime"} /\ pc = "load_coils"
    /\ ~HasScanner
    /\ Len(coils) > 0
    /\ list_coils' = CustomCoils
    /\ pc' = "define_slices"
    /\ UNCHANGED << cli, envvars, jsonvars,
                    slicevars, list_slices, json_out, error, argvars,
                    sph_contraints, loopvars >>

LoadCoilsScanner ==
    /\ cli \in {"static", "realtime"} /\ pc = "load_coils"
    /\ HasScanner
    /\ initial_in_bounds(initial_coefs, constraints_file) = NoError
    /\ sph_contraints' = AdjustedConstraints(initial_coefs, constraints_file)
    /\ list_coils' = Append(CustomCoils,
                            ScannerCoil(sph_contraints', scanner_coil_order))
    /\ pc' = "define_slices"
    /\ UNCHANGED << cli, envvars, jsonvars,
                    slicevars, list_slices, json_out, error, argvars,
                    loopvars >>

LoadCoils ==
    \/ LoadCoilsOutOfBounds
    \/ LoadCoilsNoCoil
    \/ LoadCoilsCustomOnly
    \/ LoadCoilsScanner

\* ------------------------------------------------------------------ inputs
Orders == {-1, 0, 1}

InitVals == (-MaxInit)..MaxInit

\* the custom coils of the command line: up to MaxCustom coils, the i-th one
\* with i channels
CoilArgs == {[i \in 1..k |-> i] : k \in 0..MaxCustom}

\* a constraints file with different bounds for each channel
DefaultConstraints == [c \in 1..FirstOrderChannels |-> << -(c + 1), c + 1 >>]

\* constraints files with the same bounds for every channel
UniformConstraints ==
    {[c \in 1..FirstOrderChannels |-> << lo, hi >>] :
        lo \in (-1)..0, hi \in 0..1}

\* the state of a shim command before it runs, whatever its inputs
ShimStart ==
    /\ n_slices \in {MaxAnatSlices - 1, MaxAnatSlices}
    /\ fname_is_json = FALSE
    /\ list_slices = << >>
    /\ json_out = "none"
    /\ error = NoError
    /\ sph_contraints = "unread"
    /\ list_coils = << >>
    /\ coefs = << >>
    /\ coefs_riro = << >>
    /\ pmu = << >>
    /\ mean_p = 0
    /\ p_rms = 0
    /\ fitted = {}
    /\ i_coil = 0
    /\ end_channel = 0
    /\ json_anat_data = "unread"
    /\ anat_orient = << >>
    /\ written = << >>

\* the input files of a shim command that loads without an error
NominalFiles ==
    /\ verbose = "info"
    /\ dilation_kernel_size = DefaultKernelSize
    /\ fmap_orig_shape = IF cli = "static" THEN << 2, 2, 2 >>
                                            ELSE << 2, 2, 2, 2 >>
    /\ dim_info = SliceAxis
    /\ fname_json_isfile = TRUE

\* _load_coils on every initial coefficient vector and constraints file
InitCoils ==
    /\ cli \in {"static", "realtime"}
    /\ pc = "load_coils"
    /\ ShimStart
    /\ n_slices = MaxAnatSlices
    /\ slice_factor = 1
    /\ slices = "sequential"
    /\ method = "least_squares"
    /\ output_value_format = "delta"
    /\ o_format_coil = "slicewise-coil"
    /\ o_format_sph = "slicewise-coil"
    /\ o_format = "slicewise-ch"
    /\ NominalFiles
    /\ Prepared
    /\ nii_fmap_shape = fmap_orig_shape
    /\ fmap = [t \in 1..(IF cli = "static" THEN 1 ELSE 2) |-> 0]
    /\ scanner_coil_order \in Orders
    /\ coils \in {<< >>, << 1 >>}
    /\ constraints_file \in UniformConstraints \cup {DefaultConstraints}
    /\ initial_coefs \in
           UNION {[1..k -> InitVals] :
                      k \in {FirstOrderChannels - 1, FirstOrderChannels}}
    /\ JsonLoaded

SpecCoils == InitCoils /\ [][LoadCoils]_vars

\* ------------------------------------------------- the start of a command
\* the combination of value and file format let through
UnsupportedUnchecked == FALSE

\* realtime: output_value_format == 'absolute' and o_format == 'eva'
Unsupported ==
    cli = "realtime" /\ output_value_format = "absolute" /\ o_format = "eva"

RealtimeUnsupported ==
    /\ pc = "start"
    /\ Unsupported
    /\ error' = [kind |-> "ValueError"]
    /\ pc' = "failed"
    /\ UNCHANGED << cli, envvars, jsonvars,
                    slicevars, list_slices, json_out, argvars,
                    sph_contraints, list_coils, loopvars >>

\* ---------------------------------------------------------------- _load_fmap
\* fmap_required_dims = 3 in static_cli, 4 in realtime_cli
fmap_required_dims == IF cli = "static" THEN 3 ELSE 4

\* int(math.ceil((dilation_kernel_size - 1) / 2))
n_slices_to_expand(k) == CeilDiv(k - 1, 2)

\* extend_slice(nii, n_slices, axis): the length of the axis once n_slices
\* copies of its edge slice are added on each side
extend_slice(shape, n, axis) == shape[axis] + 2 * n

\* the shape of the field map _load_fmap returns: the spatial axes of length 1
\* are extended, the other axes are left as loaded
load_fmap(shape, k) ==
    IF \E a \in 1..3 : shape[a] = 1
    THEN [a \in 1..Len(shape) |->
             IF a <= 3 /\ shape[a] = 1
             THEN extend_slice(shape, n_slices_to_expand(k), a)
             ELSE shape[a]]
    ELSE shape

\* nii_fmap_orig.get_fdata().ndim != n_dims
WrongDims == Len(fmap_orig_shape) # fmap_required_dims

\* ------------------------------------------------------ loading the inputs
\* the check of the slice encode direction left out
SliceEncodeUnchecked == FALSE

\* dim_info[2] != 2
SliceEncodeNotThird == dim_info # SliceAxis

\* the initial coefficients of the fieldmap json: channel c holds v * c
InitialFamily ==
    {[c \in 1..FirstOrderChannels |-> v * c] : v \in 0..MaxInit}
        \cup {[c \in 1..(FirstOrderChannels - 1) |-> c]}

\* the values of a field map of T time points: k at every time point but the
\* last, where the field is higher by 2
FmapContents(T) ==
    {[t \in 1..T |-> IF t = T /\ T > 1 THEN k + 2 ELSE k] :
        k \in (-MaxField)..MaxField}

\* the command stops with exception e before any coil is loaded
FailAtLoad(e) ==
    /\ cli \in {"static", "realtime"} /\ pc = "start"
    /\ ~Unsupported
    /\ error' = e
    /\ pc' = "failed"
    /\ Prepare
    /\ UNCHANGED << cli, jsonvars,
                    slicevars, list_slices, json_out, clivars, fmap,
                    initial_coefs, sph_contraints, list_coils, loopvars >>

\* raise ValueError(f"Fieldmap must be {n_dims}")
LoadFmapWrongDims ==
    /\ WrongDims
    /\ FailAtLoad([kind |-> "ValueError", what |-> "fieldmap dims"])
    /\ UNCHANGED nii_fmap_shape

\* raise RuntimeError("Slice encode direction must be the 3rd dimension ...")
LoadAnatWrongSliceDim ==
    /\ ~WrongDims
    /\ SliceEncodeNotThird
    /\ nii_fmap_shape' = load_fmap(fmap_orig_shape, dilation_kernel_size)
    /\ FailAtLoad([kind |-> "RuntimeError", what |-> "slice encode"])

\* raise OSError("Missing fieldmap json file")
LoadFmapJsonMissing ==
    /\ ~WrongDims
    /\ ~SliceEncodeNotThird
    /\ ~fname_json_isfile
    /\ nii_fmap_shape' = load_fmap(fmap_orig_shape, dilation_kernel_size)
    /\ FailAtLoad([kind |-> "OSError", what |-> "fieldmap json"])

\* the field map and the anat are loaded and the initial coefficients read
\* from the json of the field map
LoadInputs ==
    /\ cli \in {"static", "realtime"} /\ pc = "start"
    /\ ~Unsupported
    /\ ~WrongDims
    /\ ~SliceEncodeNotThird
    /\ fname_json_isfile
    /\ nii_fmap_shape' = load_fmap(fmap_orig_shape, dilation_kernel_size)
    /\ fmap' \in FmapContents(IF cli = "static" THEN 1 ELSE fmap_orig_shape[4])
    /\ initial_coefs' \in InitialFamily
    /\ json_file' = JsonFileOf(initial_coefs')
    /\ json_fm_data' = get_current_shim_settings(json_file').json_data
    /\ json_coefs' = get_current_shim_settings(json_file').returned
    /\ pc' = "load_coils"
    /\ Prepare
    /\ UNCHANGED << cli, slicevars, list_slices, json_out, error, clivars,
                    sph_contraints, list_coils, loopvars >>

LoadFiles ==
    \/ LoadFmapWrongDims
    \/ LoadAnatWrongSliceDim
    \/ LoadFmapJsonMissing
    \/ LoadInputs

\* the shapes of a field map file of 3 or 4 dimensions
FmapShapes == UNION {[1..d -> 1..MaxExtent] : d \in 3..4}

\* the loading of the inputs on every shape of field map, kernel size, slice
\* encode direction (-1: none) and with or without the json of the field map
InitInputs ==
    /\ cli \in {"static", "realtime"}
    /\ pc = "start"
    /\ verbose \in Verbosities
    /\ Unprepared
    /\ ShimStart
    /\ n_slices = MaxAnatSlices
    /\ slice_factor = 1
    /\ slices = "sequential"
    /\ method = "least_squares"
    /\ scanner_coil_order = 1
    /\ output_value_format \in {"delta", "absolute"}
    /\ coils = << >>
    /\ constraints_file = DefaultConstraints
    /\ dilation_kernel_size \in 1..MaxKernel
    /\ fmap_orig_shape \in FmapShapes
    /\ dim_info \in (-1)..2
    /\ fname_json_isfile \in BOOLEAN
    /\ nii_fmap_shape = << >>
    /\ fmap = << >>
    /\ initial_coefs = << >>
    /\ JsonNotLoaded
    /\ \/ /\ cli = "static"
          /\ o_format_coil = "slicewise-coil"
          /\ o_format_sph = "slicewise-coil"
          /\ o_format = "unused"
       \/ /\ cli = "realtime"
          /\ o_format_coil = "unused"
          /\ o_format_sph = "unused"
          /\ o_format \in {"slicewise-ch", "eva"}

SpecInputs == InitInputs /\ [][RealtimeUnsupported \/ LoadFiles]_vars

\* ------------------------------------- slice ordering of the shim commands
\* the pressures PmuResp(fname_resp) holds for a field map of T time points:
\* a constant trace and one that rises at the last time point
PmuTraces(T) == {[t \in 1..T |-> 0], [t \in 1..T |-> IF t = T THEN 2 ELSE 0]}

\* list_slices = define_slices(n_slices, slice_factor, slices); realtime_cli
\* then loads the pressure trace
ShimDefineSlices ==
    /\ cli \in {"static", "realtime"} /\ pc = "define_slices"
    /\ define_slices_valid(n_slices, slice_factor)
    /\ list_slices' = DefineSlicesCall(n_slices, slice_factor, slices)
    /\ IF cli = "realtime" THEN pmu' \in PmuTraces(Len(fmap))
                            ELSE pmu' = pmu
    /\ pc' = "optimize"
    /\ UNCHANGED << cli, envvars, jsonvars,
                    slicevars, json_out, error, argvars, sph_contraints,
                    list_coils, coefs, coefs_riro, mean_p, p_rms, fitted,
                    i_coil, end_channel, json_anat_data, anat_orient,
                    written >>

ShimDefineSlicesInvalid ==
    /\ cli \in {"static", "realtime"} /\ pc = "define_slices"
    /\ ~define_slices_valid(n_slices, slice_factor)
    /\ error' = [kind |-> "InvalidArgument"]
    /\ pc' = "failed"
    /\ UNCHANGED << cli, envvars, jsonvars,
                    slicevars, list_slices, json_out, argvars,
                    sph_contraints, list_coils, loopvars >>

\* ------------------------------------------------ StaticFieldOptimizer (4.3)
RECURSIVE SumSeq(_)
SumSeq(s) == IF s = << >> THEN 0 ELSE Head(s) + SumSeq(Tail(s))

\* the bounds of all channels, coils concatenated in list order
RECURSIVE ConcatBounds(_)
ConcatBounds(lc) ==
    IF lc = << >> THEN << >>
    ELSE SubSeq(Head(lc).coef_channel_minmax, 1, Head(lc).n_channels)
             \o ConcatBounds(Tail(lc))

Clamp(x, lo, hi) == IF x < lo THEN lo ELSE IF x > hi THEN hi ELSE x

\* the coefficient that cancels the field of a slice group best on channel c,
\* for a field map of slope k whose offset grows with the slice position
Unconstrained(k, group, c) == k * c + SumSeq(group)

\* least_squares keeps each channel within its box bounds; pseudo_inverse
\* returns the unconstrained solution
Solve(u, b, m) == IF m = "least_squares" THEN Clamp(u, b[1], b[2]) ELSE u

\* the fit of one slice group: one coefficient per channel of the
\* concatenated coils
Fit(k, group, lc, m) ==
    [c \in 1..Len(ConcatBounds(lc)) |->
        Solve(Unconstrained(k, group, c), ConcatBounds(lc)[c], m)]

\* one row per slice group, in the order of the slice groups
shim_sequencer(k, ls, lc, m) == [g \in 1..Len(ls) |-> Fit(k, ls[g], lc, m)]

\* EmptyMaskError: the mask of a group without slices has no voxel
EmptyMask(ls) == \E g \in 1..Len(ls) : Len(ls[g]) = 0

OptimizeEmptyMask ==
    /\ cli \in {"static", "realtime"} /\ pc = "optimize"
    /\ EmptyMask(list_slices)
    /\ error' = [kind |-> "EmptyMaskError"]
    /\ pc' = "failed"
    /\ UNCHANGED << cli, envvars, jsonvars,
                    slicevars, list_slices, json_out, argvars,
                    sph_contraints, list_coils, loopvars >>

\* coefs = shim_sequencer(nii_fmap, nii_anat, nii_mask_anat, list_slices, ...)
OptimizeStatic ==
    /\ cli = "static" /\ pc = "optimize"
    /\ ~EmptyMask(list_slices)
    /\ coefs' = shim_sequencer(fmap[1], list_slices, list_coils, method)
    /\ pc' = "output"
    /\ UNCHANGED << cli, envvars, jsonvars,
                    slicevars, list_slices, json_out, error, argvars,
                    sph_contraints, list_coils, coefs_riro, seqvars, i_coil,
                    end_channel, json_anat_data, anat_orient, written >>

\* ------------------------------------------- the fits of the sequencer (5)
\* the fits of the slice groups are independent and may complete in any order
\* the next free row, in the order the fits complete
RowByCompletion(g, done) == Cardinality(done) + 1

\* the row of the table that the fit of slice group g fills, when the fits
\* of the groups in done have completed: the position of the group
RowOfFit(g, done) == g

\* the fit of one slice group that has not been fitted yet completes
FitGroup ==
    /\ cli = "static" /\ pc = "optimize"
    /\ ~EmptyMask(list_slices)
    /\ \E g \in (1..Len(list_slices)) \ fitted :
           /\ coefs' = [coefs EXCEPT ![RowOfFit(g, fitted)] =
                            Fit(fmap[1], list_slices[g], list_coils, method)]
           /\ fitted' = fitted \cup {g}
    /\ UNCHANGED << cli, envvars, jsonvars,
                    pc, slicevars, list_slices, json_out, error, argvars,
                    sph_contraints, list_coils, coefs_riro, pmu, mean_p,
                    p_rms, i_coil, end_channel, json_anat_data, anat_orient,
                    written >>

\* every fit has completed: the sequencer returns the table
FitsDone ==
    /\ cli = "static" /\ pc = "optimize"
    /\ fitted = 1..Len(list_slices)
    /\ pc' = "output"
    /\ UNCHANGED << cli, envvars, jsonvars,
                    slicevars, list_slices, json_out, error, argvars,
                    sph_contraints, list_coils, loopvars >>

\* shim_sequencer of static_cli about to fit its slice groups: a custom coil
\* of one channel and a 1st order scanner coil, the table allocated and empty
InitFits ==
    /\ cli = "static"
    /\ pc = "optimize"
    /\ n_slices \in 1..MaxGroups
    /\ slice_factor \in 1..n_slices
    /\ slices \in Methods
    /\ fname_is_json = FALSE
    /\ list_slices = DefineSlicesCall(n_slices, slice_factor, slices)
    /\ json_out = "none"
    /\ error = NoError
    /\ method \in {"least_squares", "pseudo_inverse"}
    /\ scanner_coil_order = 1
    /\ output_value_format = "delta"
    /\ o_format_coil = "slicewise-coil"
    /\ o_format_sph = "slicewise-coil"
    /\ o_format = "unused"
    /\ coils = << 1 >>
    /\ constraints_file = DefaultConstraints
    /\ NominalFiles
    /\ Prepared
    /\ nii_fmap_shape = fmap_orig_shape
    /\ fmap \in FmapContents(1)
    /\ initial_coefs = [c \in 1..FirstOrderChannels |-> 0]
    /\ JsonLoaded
    /\ sph_contraints = AdjustedConstraints(initial_coefs, constraints_file)
    /\ list_coils = Append(CustomCoils,
                           ScannerCoil(sph_contraints, scanner_coil_order))
    /\ coefs = [g \in 1..Len(list_slices) |-> << >>]
    /\ coefs_riro = << >>
    /\ pmu = << >>
    /\ mean_p = 0
    /\ p_rms = 0
    /\ fitted = {}
    /\ i_coil = 0
    /\ end_channel = 0
    /\ json_anat_data = "unread"
    /\ anat_orient = << >>
    /\ written = << >>

SpecFits == InitFits /\ [][FitGroup \/ FitsDone]_vars

\* ---------------------------------------------- RealtimeFieldDecomposer (4.4)
\* the arithmetic mean; the quotient is exact for the traces of the model
Mean(s) == SumSeq(s) \div Len(s)

\* the pressure itself in place of its distance to the mean
RawPressure(p, m) == p

\* p_t - meanPressure
Deviation(p, m) == p - m

Deviations(pp) == [t \in 1..Len(pp) |-> Deviation(pp[t], Mean(pp))]

SumSquares(s) == SumSeq([t \in 1..Len(s) |-> s[t] * s[t]])

\* the sum over time of (p_t - meanPressure)^2: T times the square of the
\* root mean square, and 0 exactly when the root mean square is 0
PressureRms(pp) == SumSquares(Deviations(pp))

\* the static map of the regression field = static + riro * (p_t - mean):
\* the field at the mean pressure
StaticMap(series, pp) == Mean(series)

\* the riro map: the slope of the regression of the field on (p_t - mean);
\* without variance in the pressure there is nothing to regress against
RiroMap(series, pp) ==
    IF PressureRms(pp) = 0
    THEN 0
    ELSE SumSeq([t \in 1..Len(pp) |-> Deviations(pp)[t] * series[t]])
             \div PressureRms(pp)

\* coefs_static, coefs_riro, mean_p, p_rms = shim_realtime_pmu_sequencer(...)
OptimizeRealtime ==
    /\ cli = "realtime" /\ pc = "optimize"
    /\ ~EmptyMask(list_slices)
    /\ coefs' = shim_sequencer(StaticMap(fmap, pmu), list_slices, list_coils,
                               method)
    /\ coefs_riro' = shim_sequencer(RiroMap(fmap, pmu), list_slices,
                                    list_coils, method)
    /\ mean_p' = Mean(pmu)
    /\ p_rms' = PressureRms(pmu)
    /\ pc' = "output"
    /\ UNCHANGED << cli, envvars, jsonvars,
                    slicevars, list_slices, json_out, error, argvars,
                    sph_contraints, list_coils, pmu, fitted, i_coil,
                    end_channel, json_anat_data, anat_orient, written >>

\* the time series of T values of a set
Series(values, T) == [1..T -> values]

\* the regression of the series on the trace has integer results
ExactRegression(series, pp) ==
    /\ SumSeq(pp) % Len(pp) = 0
    /\ SumSeq(series) % Len(series) = 0
    /\ PressureRms(pp) # 0 =>
           SumSeq([t \in 1..Len(pp) |-> Deviations(pp)[t] * series[t]])
               % PressureRms(pp) = 0

\* realtime_cli about to call the sequencer, for every field map series and
\* every pressure trace of up to MaxTime matched time points
InitRiro ==
    /\ cli = "realtime"
    /\ pc = "optimize"
    /\ n_slices = MaxAnatSlices
    /\ slice_factor = 1
    /\ slices = "sequential"
    /\ fname_is_json = FALSE
    /\ list_slices = DefineSlicesCall(n_slices, slice_factor, slices)
    /\ json_out = "none"
    /\ error = NoError
    /\ method \in {"least_squares", "pseudo_inverse"}
    /\ scanner_coil_order = 1
    /\ output_value_format = "delta"
    /\ o_format_coil = "unused"
    /\ o_format_sph = "unused"
    /\ o_format = "slicewise-ch"
    /\ coils = << 1 >>
    /\ constraints_file = DefaultConstraints
    /\ NominalFiles
    /\ Prepared
    /\ nii_fmap_shape = fmap_orig_shape
    /\ \E T \in 1..MaxTime :
           /\ fmap \in Series((-MaxField)..MaxField, T)
           /\ pmu \in Series(0..MaxPressure, T)
    /\ ExactRegression(fmap, pmu)
    /\ initial_coefs = [c \in 1..FirstOrderChannels |-> 0]
    /\ JsonLoaded
    /\ sph_contraints = AdjustedConstraints(initial_coefs, constraints_file)
    /\ list_coils = Append(CustomCoils,
                           ScannerCoil(sph_contraints, scanner_coil_order))
    /\ coefs = << >>
    /\ coefs_riro = << >>
    /\ mean_p = 0
    /\ p_rms = 0
    /\ fitted = {}
    /\ i_coil = 0
    /\ end_channel = 0
    /\ json_anat_data = "unread"
    /\ anat_orient = << >>
    /\ written = << >>

SpecRiro == InitRiro /\ [][OptimizeRealtime]_vars

\* ---------------------------------------------------- CoordinateTransformer
Identity3 == << <<1, 0, 0>>, <<0, 1, 0>>, <<0, 0, 1>> >>

\* an in-plane rotation of a quarter turn
QuarterTurn == << <<0, 1, 0>>, <<-1, 0, 0>>, <<0, 0, 1>> >>

\* two rows along the same axis: the determinant is 0
Singular == << <<1, 0, 0>>, <<1, 0, 0>>, <<0, 0, 1>> >>

\* the orientations of the anatomical images of the end-to-end runs
Orientations == {Identity3, QuarterTurn, Singular}

\* the null vector and the unit vectors along the axes, in both directions
AxisVectors ==
    {[i \in 1..3 |-> IF i = a THEN d ELSE 0] : a \in 1..3, d \in (-1)..1}

\* twice the identity, and a shear: of determinant not 0, and no rotation
Scaled == << <<2, 0, 0>>, <<0, 2, 0>>, <<0, 0, 2>> >>

Sheared == << <<1, 1, 0>>, <<0, 1, 0>>, <<0, 0, 1>> >>

\* every matrix whose rows are axis vectors: the 48 rotations and reflections
\* that permute the axes among them, the others have determinant 0
OrientationFamily ==
    {<< a, b, c >> : a \in AxisVectors, b \in AxisVectors, c \in AxisVectors}
        \cup {Scaled, Sheared}

Dot3(a, b) == a[1] * b[1] + a[2] * b[2] + a[3] * b[3]

Det3(m) ==
    m[1][1] * (m[2][2] * m[3][3] - m[2][3] * m[3][2])
        - m[1][2] * (m[2][1] * m[3][3] - m[2][3] * m[3][1])
        + m[1][3] * (m[2][1] * m[3][2] - m[2][2] * m[3][1])

Transpose3(m) == [i \in 1..3 |-> [j \in 1..3 |-> m[j][i]]]

\* the rows are unit vectors orthogonal to each other
Orthonormal(m) ==
    \A i \in 1..3 : \A j \in 1..3 :
        Dot3(m[i], m[j]) = IF i = j THEN 1 ELSE 0

\* (freq, phase, slice) = rows of the orientation matrix applied to (x, y, z)
phys_to_gradient_cs(x, y, z, orient) ==
    << Dot3(orient[1], <<x, y, z>>), Dot3(orient[2], <<x, y, z>>),
       Dot3(orient[3], <<x, y, z>>) >>

\* the inverse of the rotation: the transposed matrix applied to the triplet
gradient_to_phys_cs(f, p, sl, orient) ==
    phys_to_gradient_cs(f, p, sl, Transpose3(orient))

\* ------------------------------------------------------------- text files
SumLen(ls) == SumSeq([g \in 1..Len(ls) |-> Len(ls[g])])

\* slice i taken to belong to the i-th group, the last group holding the rest
ShimInOrder(ls, i_slice) == Min(i_slice + 1, Len(ls))

\* [list_slices.index(a) for a in list_slices if i_slice in a][0]
ShimOfSlice(ls, i_slice) ==
    SetMin({g \in 1..Len(ls) : i_slice \in Elems(ls[g])})

\* one row per slice whatever the format
RowsPerSlice(ls, o_fmt, shim_rows) ==
    [i_slice \in 1..SumLen(ls) |-> shim_rows[ShimOfSlice(ls, i_slice - 1)]]

\* the rows of a file in shim (trigger) order or in slice order
\* shim_rows[i] is the row written for shim group i
RowsOf(ls, o_fmt, shim_rows) ==
    IF o_fmt \in {"chronological-coil", "chronological-ch"}
    THEN [i_shim \in 1..Len(ls) |-> shim_rows[i_shim]]
    ELSE [i_slice \in 1..SumLen(ls) |->
             shim_rows[ShimOfSlice(ls, i_slice - 1)]]

\* _save_to_text_file_static: the files it writes, in writing order; fname and
\* rows are the file, coil and ch record the coil and channel it was written for
SaveStatic(n_channels, cc, ls, o_fmt, coil_number) ==
    IF o_fmt \in {"chronological-coil", "slicewise-coil"}
    THEN << [fname |-> << "coefs_coil", coil_number >>,
             coil |-> coil_number, ch |-> "all",
             rows |-> RowsOf(ls, o_fmt, cc)] >>
    ELSE [ch \in 1..n_channels |->
             [fname |-> << "coefs_coil", coil_number, "ch", ch - 1 >>,
              coil |-> coil_number, ch |-> ch - 1,
              rows |-> RowsOf(ls, o_fmt,
                              [i \in 1..Len(cc) |-> << cc[i][ch] >>])]]

EvaName == << "f0", "x", "y", "z" >>

\* _save_to_text_file_rt: one file per channel; static, riro and mean_p in
\* each row; the eva layout names the file after the channel alone and
\* divides the gradient channels by 1000
SaveRt(n_channels, cs, cr, p, ls, o_fmt, coil_number) ==
    [ch \in 1..n_channels |->
        IF o_fmt = "eva"
        THEN [fname |-> << EvaName[ch], "shim_gradients" >>,
              coil |-> coil_number, ch |-> ch - 1,
              rows |-> RowsOf(ls, o_fmt,
                         [i \in 1..Len(cs) |->
                             << cs[i][ch], cr[i][ch], p,
                                IF ch = 1 THEN 1 ELSE 1000 >>])]
        ELSE [fname |-> << "coefs_coil", coil_number, "ch", ch - 1 >>,
              coil |-> coil_number, ch |-> ch - 1,
              rows |-> RowsOf(ls, o_fmt,
                         [i \in 1..Len(cs) |->
                             << cs[i][ch], cr[i][ch], p >>])]]

\* ------------------------------------------------------- the output loop
\* for i_coil, coil in enumerate(list_coils)
InLoop ==
    /\ cli \in {"static", "realtime"} /\ pc = "output"
    /\ i_coil < Len(list_coils)

coil == list_coils[i_coil + 1]

n_channels == coil.n_channels

\* the index of the coil taken for its first column
StartAtCoilIndex == i_coil

\* start_channel = end_channel
start_channel == end_channel

\* the table when the array of the coil is a view of its columns: what is
\* assigned to the array is assigned to the table
AliasedTable(table, cc) ==
    [r \in 1..Len(table) |->
        [c \in 1..Len(table[r]) |->
            IF start_channel < c /\ c <= start_channel + n_channels
            THEN cc[r][c - start_channel]
            ELSE table[r][c]]]

\* the table once the array of the coil holds cc: copy.deepcopy made the
\* array a copy, so the table keeps its values
TableAfter(table, cc) == table

\* copy.deepcopy(table[:, start_channel:end_channel])
CoefsCoil(table) ==
    [r \in 1..Len(table) |->
        SubSeq(table[r], start_channel + 1, start_channel + n_channels)]

\* coefs_freq and coefs_phase assigned to each other's column
ToGradientCSSwapped(cc, orient) ==
    [r \in 1..Len(cc) |->
        [c \in 1..Len(cc[r]) |->
            IF c \in 2..4
            THEN phys_to_gradient_cs(cc[r][2], cc[r][3], cc[r][4], orient)
                     [IF c = 4 THEN 3 ELSE 4 - c]
            ELSE cc[r][c]]]

\* columns 1..3 replaced by their image in the gradient coordinate system
ToGradientCS(cc, orient) ==
    [r \in 1..Len(cc) |->
        [c \in 1..Len(cc[r]) |->
            IF c \in 2..4
            THEN phys_to_gradient_cs(cc[r][2], cc[r][3], cc[r][4], orient)[c - 1]
            ELSE cc[r][c]]]

\* RAS to LAI: columns 1 (x) and 3 (z) change sign
ToShimCS(cc) ==
    [r \in 1..Len(cc) |->
        [c \in 1..Len(cc[r]) |-> IF c \in {2, 4} THEN -cc[r][c] ELSE cc[r][c]]]

\* coefs_coil[:, i_channel] + initial_coefs[i_channel] for every channel
AddInitial(cc) ==
    [r \in 1..Len(cc) |->
        [c \in 1..Len(cc[r]) |-> cc[r][c] + initial_coefs[c]]]

\* the files written for the coil of this iteration
Save(cs, cr) ==
    IF cli = "static"
    THEN SaveStatic(n_channels, cs, list_slices,
                    IF coil.kind = "ScannerCoil" THEN o_format_sph
                                                   ELSE o_format_coil,
                    i_coil)
    ELSE SaveRt(n_channels, cs, cr, mean_p, list_slices, o_format, i_coil)

\* 'eva' is refused for a coil that has not 4 channels
EvaRefused ==
    cli = "realtime" /\ o_format = "eva" /\ n_channels # FirstOrderChannels
        /\ n_channels > 0

\* the branch taken on the order alone, whatever the format
GradientBranchAnyFormat == scanner_coil_order >= 1

\* if output_value_format == 'delta' and scanner_coil_order >= 1
GradientBranch == output_value_format = "delta" /\ scanner_coil_order >= 1

\* the iteration ends with cs and cr in the arrays of the coil: they are saved
Advance(cs, cr) ==
    /\ written' = written \o Save(cs, cr)
    /\ coefs' = TableAfter(coefs, cs)
    /\ coefs_riro' = TableAfter(coefs_riro, cr)
    /\ end_channel' = start_channel + n_channels
    /\ i_coil' = i_coil + 1
    /\ UNCHANGED << cli, envvars, jsonvars,
                    pc, slicevars, list_slices, json_out, error, argvars,
                    sph_contraints, list_coils, seqvars >>

Raise(e) ==
    /\ error' = e
    /\ pc' = "failed"
    /\ end_channel' = start_channel + n_channels
    /\ UNCHANGED << cli, envvars, jsonvars,
                    slicevars, list_slices, json_out, argvars,
                    sph_contraints, list_coils, coefs, coefs_riro, seqvars,
                    i_coil, written >>

OutputCustomCoil ==
    /\ InLoop /\ coil.kind = "Coil"
    /\ ~EvaRefused
    /\ Advance(CoefsCoil(coefs), CoefsCoil(coefs_riro))
    /\ UNCHANGED << json_anat_data, anat_orient >>

OutputEvaRefused ==
    /\ InLoop /\ coil.kind = "Coil"
    /\ EvaRefused
    /\ Raise([kind |-> "RuntimeError", what |-> "eva"])
    /\ UNCHANGED << json_anat_data, anat_orient >>

\* the orientations the anatomical image may turn out to have
OrientationRead == IF anat_orient = << >> THEN Orientations ELSE {anat_orient}

OutputScannerGradient ==
    /\ InLoop /\ coil.kind = "ScannerCoil"
    /\ GradientBranch
    /\ \E orient \in OrientationRead :
           /\ Orthonormal(orient)
           /\ anat_orient' = orient
           /\ Advance(ToGradientCS(CoefsCoil(coefs), orient),
                      ToGradientCS(CoefsCoil(coefs_riro), orient))
    /\ UNCHANGED json_anat_data

\* phys_to_gradient_cs fails on an orientation that is no rotation
OutputScannerUnsupportedOrientation ==
    /\ InLoop /\ coil.kind = "ScannerCoil"
    /\ GradientBranch
    /\ \E orient \in OrientationRead :
           /\ ~Orthonormal(orient)
           /\ anat_orient' = orient
    /\ Raise([kind |-> "UnsupportedOrientationError"])
    /\ UNCHANGED json_anat_data

OutputScannerNotImplemented ==
    /\ InLoop /\ coil.kind = "ScannerCoil"
    /\ ~GradientBranch
    /\ \E manufacturer \in {"GE", "Philips"} :
           json_anat_data' = manufacturer
    /\ Raise([kind |-> "NotImplementedError"])
    /\ UNCHANGED anat_orient

\* coefs_coil[:, 1] of a one-column table
OutputScannerIndexError ==
    /\ InLoop /\ coil.kind = "ScannerCoil"
    /\ ~GradientBranch
    /\ json_anat_data' = "Siemens"
    /\ n_channels < FirstOrderChannels
    /\ Raise([kind |-> "IndexError"])
    /\ UNCHANGED anat_orient

OutputScannerAbsolute ==
    /\ InLoop /\ coil.kind = "ScannerCoil"
    /\ ~GradientBranch
    /\ json_anat_data' = "Siemens"
    /\ n_channels >= FirstOrderChannels
    /\ Advance(AddInitial(ToShimCS(CoefsCoil(coefs))),
               ToShimCS(CoefsCoil(coefs_riro)))
    /\ UNCHANGED anat_orient

OutputDone ==
    /\ cli \in {"static", "realtime"} /\ pc = "output"
    /\ i_coil = Len(list_coils)
    /\ pc' = "done"
    /\ UNCHANGED << cli, envvars, jsonvars,
                    slicevars, list_slices, json_out, error, argvars,
                    sph_contraints, list_coils, loopvars >>

\* --------------------------------------------------------- the shim commands
\* the input files: the nominal ones, and those with one thing wrong: a field
\* map of the other command, a slice encode direction that is not the 3rd
\* axis (-1: the header names none), no json next to the field map
InputFiles ==
    /\ verbose = "info"
    /\ dilation_kernel_size = DefaultKernelSize
    /\ \/ NominalFiles
       \/ /\ fmap_orig_shape = IF cli = "static" THEN << 2, 2, 2, 2 >>
                                                   ELSE << 2, 2, 2 >>
          /\ dim_info = SliceAxis
          /\ fname_json_isfile = TRUE
       \/ /\ fmap_orig_shape = IF cli = "static" THEN << 2, 2, 2 >>
                                                   ELSE << 2, 2, 2, 2 >>
          /\ dim_info \in (-1)..1
          /\ fname_json_isfile = TRUE
       \/ /\ fmap_orig_shape = IF cli = "static" THEN << 2, 2, 2 >>
                                                   ELSE << 2, 2, 2, 2 >>
          /\ dim_info = SliceAxis
          /\ fname_json_isfile = FALSE

ShimInit ==
    /\ cli \in {"static", "realtime"}
    /\ pc = "start"
    /\ Unprepared
    /\ ShimStart
    /\ slice_factor \in 0..MaxAnatSlices
    /\ slices \in Methods
    /\ method \in {"least_squares", "pseudo_inverse"}
    /\ output_value_format \in {"delta", "absolute"}
    /\ scanner_coil_order \in Orders
    /\ coils \in CoilArgs
    /\ constraints_file = DefaultConstraints
    /\ InputFiles
    /\ nii_fmap_shape = << >>
    /\ fmap = << >>
    /\ initial_coefs = << >>
    /\ JsonNotLoaded
    /\ \/ /\ cli = "static"
          /\ o_format_coil = "slicewise-coil"
          /\ o_format_sph = "slicewise-coil"
          /\ o_format = "unused"
       \/ /\ cli = "realtime"
          /\ o_format_coil = "unused"
          /\ o_format_sph = "unused"
          /\ o_format \in {"slicewise-ch", "eva"}

Init == ShimInit \/ InitSlices

Next ==
    \/ NextSlices
    \/ RealtimeUnsupported
    \/ LoadFiles
    \/ LoadCoils
    \/ ShimDefineSlices
    \/ ShimDefineSlicesInvalid
    \/ OptimizeEmptyMask
    \/ OptimizeStatic
    \/ OptimizeRealtime
    \/ OutputCustomCoil
    \/ OutputEvaRefused
    \/ OutputScannerGradient
    \/ OutputScannerUnsupportedOrientation
    \/ OutputScannerNotImplemented
    \/ OutputScannerIndexError
    \/ OutputScannerAbsolute
    \/ OutputDone

Spec == Init /\ [][Next]_vars

\* ------------------------------------------- the rotation of the output loop
\* static_cli about to write the scanner coil of a 'delta' run: one slice
\* group, every table row of first order coefficients up to MaxCoef, and an
\* anatomical image of any orientation of the family
InitTransform ==
    /\ cli = "static"
    /\ pc = "output"
    /\ n_slices = 1
    /\ slice_factor = 1
    /\ slices = "sequential"
    /\ fname_is_json = FALSE
    /\ list_slices = DefineSlicesCall(n_slices, slice_factor, slices)
    /\ json_out = "none"
    /\ error = NoError
    /\ method = "least_squares"
    /\ scanner_coil_order = 1
    /\ output_value_format = "delta"
    /\ o_format_coil = "slicewise-coil"
    /\ o_format_sph = "slicewise-coil"
    /\ o_format = "unused"
    /\ coils = << >>
    /\ constraints_file = DefaultConstraints
    /\ NominalFiles
    /\ Prepared
    /\ nii_fmap_shape = fmap_orig_shape
    /\ fmap = << 0 >>
    /\ initial_coefs = [c \in 1..FirstOrderChannels |-> 0]
    /\ JsonLoaded
    /\ sph_contraints = AdjustedConstraints(initial_coefs, constraints_file)
    /\ list_coils = << ScannerCoil(sph_contraints, scanner_coil_order) >>
    /\ \E x \in (-MaxCoef)..MaxCoef, y \in (-MaxCoef)..MaxCoef,
          z \in (-MaxCoef)..MaxCoef :
           coefs = << << 0, x, y, z >> >>
    /\ coefs_riro = << >>
    /\ pmu = << >>
    /\ mean_p = 0
    /\ p_rms = 0
    /\ fitted = {}
    /\ i_coil = 0
    /\ end_channel = 0
    /\ json_anat_data = "unread"
    /\ anat_orient \in OrientationFamily
    /\ written = << >>

NextTransform ==
    \/ OutputScannerGradient
    \/ OutputScannerUnsupportedOrientation
    \/ OutputDone

SpecTransform == InitTransform /\ [][NextTransform]_vars

\* --------------------------------------------------- the files of a table
\* the orders of the slices 0..n-1
SliceOrders(n) ==
    {p \in [1..n -> 0..(n - 1)] :
        \A i \in 1..n : \A j \in 1..n : i # j => p[i] # p[j]}

\* the group of position i when the order is cut after the positions of cuts
GroupOfPosition(i, cuts) == Cardinality({c \in cuts : c < i}) + 1

\* the order p cut into groups after the positions of cuts
CutGroups(p, cuts) ==
    [g \in 1..(Cardinality(cuts) + 1) |->
        SubSeq(p,
               SetMin({i \in 1..Len(p) : GroupOfPosition(i, cuts) = g}),
               SetMin({i \in 1..Len(p) : GroupOfPosition(i, cuts) = g})
                   + Cardinality({i \in 1..Len(p) :
                                     GroupOfPosition(i, cuts) = g}) - 1)]

\* every list of non-empty groups that partitions 0..n-1, the groups and the
\* slices of a group in any order
GroupLists(n) ==
    {CutGroups(p, cuts) : p \in SliceOrders(n), cuts \in SUBSET (1..(n - 1))}

\* a table with a different value in every cell: 10 * group + column
NumberedTable(n_groups, width, base) ==
    [g \in 1..n_groups |-> [c \in 1..width |-> base + 10 * g + c]]

\* a command about to write its files: a 1st order scanner coil of a 'delta'
\* run on an anatomical image in the physical orientation, alone or after one
\* custom coil of 1 or 4 channels, every output file format, and any
\* slice-group list of up to MaxSaved slices
InitSave ==
    /\ cli \in {"static", "realtime"}
    /\ pc = "output"
    /\ \E n \in 1..MaxSaved :
           /\ n_slices = n
           /\ list_slices \in GroupLists(n)
    /\ slice_factor = 1
    /\ slices = "sequential"
    /\ fname_is_json = FALSE
    /\ json_out = "none"
    /\ error = NoError
    /\ method = "least_squares"
    /\ scanner_coil_order = 1
    /\ output_value_format = "delta"
    /\ IF cli = "static"
       THEN /\ o_format_coil \in {"slicewise-ch", "slicewise-coil",
                                  "chronological-ch", "chronological-coil"}
            /\ o_format_sph \in {"slicewise-ch", "slicewise-coil",
                                 "chronological-ch", "chronological-coil"}
            /\ o_format = "unused"
       ELSE /\ o_format_coil = "unused"
            /\ o_format_sph = "unused"
            /\ o_format \in {"slicewise-ch", "chronological-ch", "eva"}
    /\ coils \in {<< >>, << 1 >>, << FirstOrderChannels >>}
    /\ constraints_file = DefaultConstraints
    /\ NominalFiles
    /\ Prepared
    /\ nii_fmap_shape = fmap_orig_shape
    /\ fmap = [t \in 1..(IF cli = "static" THEN 1 ELSE 2) |-> 0]
    /\ initial_coefs = [c \in 1..FirstOrderChannels |-> 0]
    /\ JsonLoaded
    /\ sph_contraints = AdjustedConstraints(initial_coefs, constraints_file)
    /\ list_coils = Append(CustomCoils,
                           ScannerCoil(sph_contraints, scanner_coil_order))
    /\ coefs = NumberedTable(Len(list_slices),
                             Len(ConcatBounds(list_coils)), 0)
    /\ coefs_riro = IF cli = "static" THEN << >>
                    ELSE NumberedTable(Len(list_slices),
                                       Len(ConcatBounds(list_coils)), 100)
    /\ pmu = IF cli = "static" THEN << >> ELSE << 1, 1 >>
    /\ mean_p = IF cli = "static" THEN 0 ELSE 1
    /\ p_rms = 0
    /\ fitted = {}
    /\ i_coil = 0
    /\ end_channel = 0
    /\ json_anat_data = "unread"
    /\ anat_orient = Identity3
    /\ written = << >>

NextSave ==
    \/ OutputCustomCoil
    \/ OutputEvaRefused
    \/ OutputScannerGradient
    \/ OutputDone

SpecSave == InitSave /\ [][NextSave]_vars

\* ------------------------------------------------------------------ claims
\* every position (group, place) of the slice-group list ls
Places(ls) == {p \in (1..Len(ls)) \X (0..MaxSlices + 1) :
                   p[2] >= 1 /\ p[2] <= Len(ls[p[1]])}

AllSlices(ls) == {ls[p[1]][p[2]] : p \in Places(ls)}

IsPartition(ls, n) ==
    /\ AllSlices(ls) = 0..(n - 1)
    /\ \A s \in 0..(n - 1) :
           Cardinality({p \in Places(ls) : ls[p[1]][p[2]] = s}) = 1

\* C1: the groups written by define_slices partition the slice indices: their
\* union is {0..n_slices-1} and every index is at exactly one place of exactly
\* one group, for every method, also when n_slices is no multiple of the factor.
C1_Partition == pc = "done" => IsPartition(json_out, n_slices)

C1_Witness ==
    /\ pc = "done" /\ slices = "interleaved"
    /\ n_slices = 5 /\ slice_factor = 3
    /\ IsPartition(json_out, n_slices)

\* C7: sequential: group j is the consecutive range [j*factor,
\* min((j+1)*factor, n)), in increasing order, the last partial chunk kept.
C7_Sequential ==
    (pc = "done" /\ slices = "sequential") =>
        /\ Len(json_out) = CeilDiv(n_slices, slice_factor)
        /\ \A j \in 1..Len(json_out) :
               /\ Len(json_out[j]) =
                      Min(j * slice_factor, n_slices) - (j - 1) * slice_factor
               /\ \A i \in 1..Len(json_out[j]) :
                      json_out[j][i] = (j - 1) * slice_factor + (i - 1)
        /\ (n_slices = 5 /\ slice_factor = 3 =>
                json_out = << <<0, 1, 2>>, <<3, 4>> >>)

C7_Witness ==
    /\ pc = "done" /\ slices = "sequential"
    /\ n_slices = 5 /\ slice_factor = 3
    /\ json_out = << <<0, 1, 2>>, <<3, 4>> >>

C9_FactorIsGroupSize ==
    (pc = "done" /\ slices \in {"sequential", "interleaved"}
        /\ n_slices % slice_factor = 0) =>
        /\ \A g \in 1..Len(json_out) : Len(json_out[g]) = slice_factor
        /\ (n_slices = 6 /\ slice_factor = 3 /\ slices = "interleaved" =>
                json_out = << <<0, 2, 4>>, <<1, 3, 5>> >>)

\* C10: volume: exactly one group, holding every index of [0, n_slices), the
\* same whatever the factor.
C10_Volume ==
    (pc = "done" /\ slices = "volume") =>
        /\ Len(json_out) = 1
        /\ json_out[1] = RangeSeq(0, n_slices)

C10_Witness ==
    /\ pc = "done" /\ slices = "volume"
    /\ n_slices = 5 /\ slice_factor = 3
    /\ json_out = << <<0, 1, 2, 3, 4>> >>

\* C5: after _load_coils has adjusted the bounds, every channel i has
\* deltaBounds[i] = [min - initial[i], max - initial[i]], so initial + delta
\* bound gives back the absolute bound, and 0 lies within the delta bounds;
\* these are the bounds the scanner coil is built with.
C5_DeltaBounds ==
    (pc = "define_slices" /\ HasScanner) =>
        /\ Len(sph_contraints) = Len(constraints_file)
        /\ \A i \in 1..Len(constraints_file) :
               /\ sph_contraints[i] =
                      << constraints_file[i][1] - initial_coefs[i],
                         constraints_file[i][2] - initial_coefs[i] >>
               /\ initial_coefs[i] + sph_contraints[i][1] = constraints_file[i][1]
               /\ initial_coefs[i] + sph_contraints[i][2] = constraints_file[i][2]
               /\ sph_contraints[i][1] <= 0 /\ 0 <= sph_contraints[i][2]
        /\ list_coils[Len(list_coils)].coef_channel_minmax = sph_contraints

C5_Witness ==
    /\ pc = "define_slices" /\ HasScanner
    /\ initial_coefs[1] = constraints_file[1][2] /\ initial_coefs[1] # 0
    /\ initial_coefs[2] = constraints_file[2][1] /\ initial_coefs[2] # 0
    /\ sph_contraints[1][2] = 0
    /\ sph_contraints[2][1] = 0

LengthMismatch == Len(initial_coefs) # Len(constraints_file)

\* channels whose initial coefficient is strictly below min or above max
OffendingChannels ==
    {i \in 1..Len(constraints_file) :
        \/ initial_coefs[i] < constraints_file[i][1]
        \/ initial_coefs[i] > constraints_file[i][2]}

HoldsAllChannels(file) ==
    Len(file.fname) = 2 /\ file.fname[1] = "coefs_coil"

\* the (coil number, channel, static coefficient) triples of the files written
WrittenCoefs ==
    UNION {{ << written[f].coil,
                IF HoldsAllChannels(written[f]) THEN c - 1 ELSE written[f].ch,
                written[f].rows[r][c] >> :
               r \in 1..Len(written[f].rows),
               c \in (IF HoldsAllChannels(written[f])
                      THEN 1..Len(written[f].rows[1]) ELSE {1}) } :
           f \in 1..Len(written)}

\* the coil number of the scanner coil: it is the last coil of the list
ScannerNumber == Len(list_coils) - 1

ScannerWritten ==
    HasScanner /\ \E w \in WrittenCoefs : w[1] = ScannerNumber

\* C2: scanner coil, least_squares, 'absolute': every scanner coefficient
\* written (initial + delta after the sign flips) lies within the channel's
\* absolute bounds of the constraints file.
C2_AbsoluteWithinBounds ==
    (output_value_format = "absolute" /\ method = "least_squares"
        /\ HasScanner) =>
        \A w \in WrittenCoefs :
            w[1] = ScannerNumber =>
                /\ constraints_file[w[2] + 1][1] <= w[3]
                /\ w[3] <= constraints_file[w[2] + 1][2]

\* C3: a command that failed has written no coefficient file.
C3_NoPartialOutput == pc = "failed" => written = << >>

\* C4: with 'delta' the run never fails in the conversion of the absolute
\* format, and once the run is over the scanner coil's file holds the
\* optimizer's delta values (1st order in the gradient coordinate system),
\* for every scanner coil order.
C4_DeltaWritesDelta ==
    (output_value_format = "delta" /\ HasScanner) =>
        /\ json_anat_data = "unread"
        /\ error.kind \notin {"IndexError", "NotImplementedError"}
        /\ pc = "done" => ScannerWritten

\* C11: with a factor below 1 or a slice count below 1 no command gets a slice
\* group list: none is kept, none is written to the json output, no
\* optimization is run and no coefficient file is written; define_slices_cli
\* ends with InvalidArgument and a shim command that reaches define_slices
\* ends with it too.
C11_InvalidRejected ==
    (n_slices < 1 \/ slice_factor < 1) =>
        /\ list_slices = << >>
        /\ coefs = << >> /\ coefs_riro = << >>
        /\ written = << >>
        /\ pc \in {"start", "load_coils", "define_slices", "failed"}
        /\ (pc = "failed" /\ cli = "define_slices") =>
               error.kind = "InvalidArgument"
        /\ (pc = "failed" /\ list_coils # << >>
               /\ error.kind \notin {"RuntimeError", "OSError"}) =>
               error.kind = "InvalidArgument"

C11_Witness ==
    /\ pc = "failed" /\ cli = "static"
    /\ slice_factor = 0 /\ n_slices = MaxAnatSlices
    /\ Len(list_coils) = 2
    /\ error.kind = "InvalidArgument"
    /\ list_slices = << >> /\ coefs = << >>

\* the bounds a least-squares solution has to respect on column c of the
\* table: the hardware bounds of the constraints of a custom coil, the delta
\* bounds (hardware bound - initial coefficient) for a scanner channel
RequiredBounds(c) ==
    IF c <= Len(ConcatBounds(CustomCoils))
    THEN ConcatBounds(CustomCoils)[c]
    ELSE LET ch == c - Len(ConcatBounds(CustomCoils))
         IN  << constraints_file[ch][1] - initial_coefs[ch],
                constraints_file[ch][2] - initial_coefs[ch] >>

WithinRequiredBounds(table) ==
    \A g \in 1..Len(table) :
        \A c \in 1..Len(table[g]) :
            /\ RequiredBounds(c)[1] <= table[g][c]
            /\ table[g][c] <= RequiredBounds(c)[2]

\* C12: with least_squares every coefficient the sequencer returned, for every
\* slice group and channel, static and riro, lies within the bounds of its
\* channel: the delta bounds for scanner channels, the hardware bounds for
\* custom coil channels.
C12_LeastSquaresWithinBounds ==
    method = "least_squares" =>
        /\ WithinRequiredBounds(coefs)
        /\ WithinRequiredBounds(coefs_riro)

C12_Witness ==
    /\ pc = "done" /\ cli = "static" /\ method = "least_squares"
    /\ Len(list_coils) = 2 /\ HasScanner
    /\ initial_coefs[1] # 0
    /\ \E g \in 1..Len(coefs) :
           \E c \in 2..Len(coefs[g]) :
               /\ Unconstrained(fmap[1], list_slices[g], c) > RequiredBounds(c)[2]
               /\ coefs[g][c] = RequiredBounds(c)[2]

\* C13: in whatever order the fits of the slice groups complete, row g of the
\* coefficient table is the fit of the g-th slice group of list_slices, and
\* the table returned is the one the fits give when run one after the other
\* in the order of list_slices.
C13_RowOrder ==
    /\ \A g \in fitted :
           coefs[g] = Fit(fmap[1], list_slices[g], list_coils, method)
    /\ \A g \in (1..Len(list_slices)) \ fitted : coefs[g] = << >>
    /\ pc = "output" =>
           coefs = shim_sequencer(fmap[1], list_slices, list_coils, method)

\* the fit of the last of 3 groups has completed before the two others
C13_Witness ==
    /\ pc = "optimize" /\ Len(list_slices) = 3 /\ fitted = {3}
    /\ coefs[3] = Fit(fmap[1], list_slices[3], list_coils, method)
    /\ coefs[3] # Fit(fmap[1], list_slices[1], list_coils, method)
    /\ Len(coefs[1]) = 0

\* the number of columns of the coils before coil j of list_coils (from 1)
ColumnsBefore(j) == SumSeq([i \in 1..(j - 1) |-> list_coils[i].n_channels])

\* the columns of a table that belong to coil j
ColumnsOf(table, j) ==
    [r \in 1..Len(table) |->
        SubSeq(table[r], ColumnsBefore(j) + 1,
               ColumnsBefore(j) + list_coils[j].n_channels)]

\* the files of coil j when they hold the columns of coil j unchanged
FilesOfColumns(j) ==
    IF cli = "static"
    THEN SaveStatic(list_coils[j].n_channels, ColumnsOf(coefs, j), list_slices,
                    o_format_coil, j - 1)
    ELSE SaveRt(list_coils[j].n_channels, ColumnsOf(coefs, j),
                ColumnsOf(coefs_riro, j), mean_p, list_slices, o_format, j - 1)

\* C14: the coils are the custom coils in command line order, then the
\* scanner coil; the columns of the table are their channels in that order;
\* after i_coil coils end_channel is the number of channels of those coils, so
\* the ranges [start_channel, end_channel) follow each other without gap or
\* overlap and end at the last column; a custom coil's files hold exactly the
\* columns of its range.
C14_ColumnRanges ==
    (cli \in {"static", "realtime"} /\ pc \in {"output", "done"}) =>
        /\ Len(list_coils) = Len(coils) + (IF HasScanner THEN 1 ELSE 0)
        /\ \A j \in 1..Len(coils) :
               /\ list_coils[j].kind = "Coil"
               /\ list_coils[j].n_channels = coils[j]
        /\ HasScanner =>
               /\ list_coils[Len(list_coils)].kind = "ScannerCoil"
               /\ list_coils[Len(list_coils)].n_channels =
                      ScannerChannels(scanner_coil_order)
        /\ \A g \in 1..Len(coefs) :
               Len(coefs[g]) = ColumnsBefore(Len(list_coils) + 1)
        /\ end_channel = ColumnsBefore(i_coil + 1)
        /\ pc = "done" => end_channel = Len(coefs[1])
        /\ \A j \in 1..i_coil :
               list_coils[j].kind = "Coil" =>
                   SelectSeq(written, LAMBDA w : w.coil = j - 1)
                       = FilesOfColumns(j)

C14_Witness ==
    /\ pc = "done" /\ Len(coils) = 2 /\ HasScanner
    /\ scanner_coil_order = 1
    /\ end_channel = 7
    /\ \E f \in 1..Len(written) :
           /\ written[f].coil = 1
           /\ written[f].rows[1] = SubSeq(coefs[1], 2, 3)

\* the tables the sequencer of the command returns: static, then riro
SequencerTables ==
    IF cli = "static"
    THEN << shim_sequencer(fmap[1], list_slices, list_coils, method), << >> >>
    ELSE << shim_sequencer(StaticMap(fmap, pmu), list_slices, list_coils,
                           method),
            shim_sequencer(RiroMap(fmap, pmu), list_slices, list_coils,
                           method) >>

\* C15: once returned, the coefficient tables are not modified: while the
\* output loop runs, when it has completed and when it has failed, coefs and
\* coefs_riro hold the values the sequencer returned, and the files of a
\* custom coil hold the sequencer's values, whatever was done for the other
\* coils.
C15_TablesUnchanged ==
    (cli \in {"static", "realtime"} /\ pc \in {"output", "done", "failed"}
        /\ coefs # << >>) =>
        /\ coefs = SequencerTables[1]
        /\ coefs_riro = SequencerTables[2]
        /\ \A j \in 1..i_coil :
               list_coils[j].kind = "Coil" =>
                   SelectSeq(written, LAMBDA w : w.coil = j - 1)
                       = FilesOfColumns(j)

\* the scanner coil was written in 'absolute': its file does not hold the
\* values of the table, and the table is as returned
C15_Witness ==
    /\ pc = "done" /\ cli = "realtime" /\ output_value_format = "absolute"
    /\ scanner_coil_order = 1 /\ Len(coils) = 1
    /\ coefs = SequencerTables[1]
    /\ \E f \in 1..Len(written) :
           /\ written[f].coil = 1 /\ written[f].ch = 1
           /\ written[f].rows[1][1] # coefs[1][3]
           /\ written[f].rows[1][2] = -coefs_riro[1][3]
           /\ coefs_riro[1][3] # 0

\* C16: the field map _load_fmap returns has at least 2 voxels along every
\* spatial axis that had length 1 in the file, the slice axis included, for
\* every kernel size.
C16_ExpandedFmap ==
    nii_fmap_shape # << >> =>
        \A a \in 1..3 : fmap_orig_shape[a] = 1 => nii_fmap_shape[a] >= 2

\* C17: in 'absolute' the scanner coil is written only after the manufacturer
\* of the anat json was read as 'Siemens'; with any other manufacturer the
\* command fails with NotImplementedError at the scanner coil and no file of
\* the scanner coil is written.
C17_OtherManufacturerFails ==
    (cli \in {"static", "realtime"} /\ output_value_format = "absolute"
        /\ HasScanner) =>
        /\ ScannerWritten => json_anat_data = "Siemens"
        /\ (pc = "done") => json_anat_data = "Siemens"
        /\ json_anat_data \notin {"unread", "Siemens"} =>
               /\ pc = "failed"
               /\ error.kind = "NotImplementedError"
               /\ i_coil = Len(list_coils) - 1
               /\ ~ScannerWritten

C17_Witness ==
    /\ cli = "realtime" /\ output_value_format = "absolute"
    /\ scanner_coil_order = 1 /\ Len(list_coils) = 1
    /\ json_anat_data = "GE"
    /\ pc = "failed" /\ error.kind = "NotImplementedError"
    /\ written = << >>

\* C18: static_cli and realtime_cli with an anatomical image whose slice encode
\* direction is not the third array axis never get past the loading of the
\* inputs: no slice group is defined, no coil is loaded, no optimization is
\* run, no file is written, and the run that fails on this check (the field
\* map having the required dimensions) fails with the RuntimeError of it.
C18_SliceEncodeNotThirdFails ==
    (cli \in {"static", "realtime"} /\ dim_info # SliceAxis) =>
        /\ pc \in {"start", "failed"}
        /\ list_slices = << >> /\ list_coils = << >>
        /\ coefs = << >> /\ coefs_riro = << >>
        /\ written = << >>
        /\ (pc = "failed" /\ ~Unsupported /\ ~WrongDims) =>
               /\ error.kind = "RuntimeError"
               /\ error.what = "slice encode"

C18_Witness ==
    /\ cli = "realtime" /\ dim_info = -1
    /\ pc = "failed" /\ error.kind = "RuntimeError"
    /\ nii_fmap_shape # << >>
    /\ list_slices = << >> /\ written = << >>

\* a trace whose matched pressure samples are all equal
ConstantPressure == \A t \in 1..Len(pmu) : pmu[t] = pmu[1]

\* C19: for every field map series, when the matched pressure samples are all
\* equal, the decomposition completes without error, the riro map is zero (so
\* the riro coefficients are the fit of a zero map), pressureRms is 0 and the
\* mean pressure is the common value.
C19_ConstantPressure ==
    (cli = "realtime" /\ pc # "optimize" /\ ConstantPressure) =>
        /\ pc = "output" /\ error = NoError
        /\ RiroMap(fmap, pmu) = 0
        /\ coefs_riro = shim_sequencer(0, list_slices, list_coils, method)
        /\ p_rms = 0
        /\ mean_p = pmu[1]

C19_Witness ==
    /\ cli = "realtime" /\ pc = "output"
    /\ Len(pmu) = MaxTime /\ ConstantPressure /\ pmu[1] = MaxPressure
    /\ fmap[1] # fmap[MaxTime]
    /\ p_rms = 0 /\ mean_p = MaxPressure

\* the first order triplet (x, y, z) of a row of four coefficients
Triplet(row) == << row[2], row[3], row[4] >>

\* the rows of the scanner coil's file of a run with the scanner coil alone
GradientRows == written[1].rows

\* C20: phys_to_gradient_cs is a pure rotation: for every orthonormal
\* orientation and every triplet, the inverse applied to the triplet written
\* gives back the triplet of the table and the two have the same norm; for an
\* orientation of determinant 0 the call raises and no triplet is written.
C20_PureRotation ==
    (cli = "static" /\ GradientBranch /\ Len(list_coils) = 1
        /\ anat_orient # << >> /\ (i_coil = 1 \/ pc = "failed")) =>
        /\ Orthonormal(anat_orient) =>
               /\ pc # "failed" /\ Len(written) = 1
               /\ \A r \in 1..Len(GradientRows) :
                      /\ gradient_to_phys_cs(GradientRows[r][2],
                                             GradientRows[r][3],
                                             GradientRows[r][4], anat_orient)
                             = Triplet(coefs[r])
                      /\ Dot3(Triplet(GradientRows[r]),
                              Triplet(GradientRows[r]))
                             = Dot3(Triplet(coefs[r]), Triplet(coefs[r]))
                      /\ GradientRows[r][1] = coefs[r][1]
        /\ Det3(anat_orient) = 0 =>
               /\ pc = "failed"
               /\ error.kind = "UnsupportedOrientationError"
               /\ written = << >>

\* a rotation that is not its own inverse applied to a triplet of three
\* different values
C20_Witness ==
    /\ cli = "static" /\ i_coil = 1 /\ Len(written) = 1
    /\ anat_orient = << <<0, 1, 0>>, <<0, 0, 1>>, <<1, 0, 0>> >>
    /\ Triplet(coefs[1]) = << -MaxCoef, 0, MaxCoef >>
    /\ Triplet(GradientRows[1]) = << 0, MaxCoef, -MaxCoef >>

\* an orientation of determinant 0 has made the call fail
C20_WitnessSingular ==
    /\ cli = "static" /\ pc = "failed"
    /\ anat_orient # << >> /\ Det3(anat_orient) = 0
    /\ error.kind = "UnsupportedOrientationError"

\* the output file format a written file was written in
FormatOf(file) ==
    IF cli = "static"
    THEN IF list_coils[file.coil + 1].kind = "ScannerCoil"
         THEN o_format_sph ELSE o_format_coil
    ELSE o_format

\* what a row of the file holds when it is the row of shim group g: every
\* channel of the coil, or the channel of the file (in realtime followed by
\* the riro coefficient and the mean pressure; 'eva' adds its unit divisor)
RowOfGroup(file, g) ==
    IF HoldsAllChannels(file)
    THEN ColumnsOf(coefs, file.coil + 1)[g]
    ELSE IF cli = "static"
    THEN << coefs[g][ColumnsBefore(file.coil + 1) + file.ch + 1] >>
    ELSE IF o_format = "eva"
    THEN << coefs[g][ColumnsBefore(file.coil + 1) + file.ch + 1],
            coefs_riro[g][ColumnsBefore(file.coil + 1) + file.ch + 1],
            mean_p, IF file.ch = 0 THEN 1 ELSE 1000 >>
    ELSE << coefs[g][ColumnsBefore(file.coil + 1) + file.ch + 1],
            coefs_riro[g][ColumnsBefore(file.coil + 1) + file.ch + 1],
            mean_p >>

\* the shim group that holds slice s
GroupHolding(s) ==
    CHOOSE g \in 1..Len(list_slices) : s \in Elems(list_slices[g])

\* C21: in the slicewise formats (slicewise-coil, slicewise-ch, 'eva') and for
\* every slice-group list that partitions 0..n-1, a file has n rows, and the
\* row of slice s (rows in ascending slice order) holds the coefficients of
\* the group that contains s, whatever the order of the groups.
C21_SlicewiseRows ==
    (cli \in {"static", "realtime"} /\ pc \in {"output", "done"}) =>
        \A f \in 1..Len(written) :
            FormatOf(written[f]) \in {"slicewise-coil", "slicewise-ch", "eva"}
                => /\ Len(written[f].rows) = n_slices
                   /\ \A s \in 0..(n_slices - 1) :
                          written[f].rows[s + 1]
                              = RowOfGroup(written[f], GroupHolding(s))

\* three slices in two groups given out of order, written per slice
C21_Witness ==
    /\ cli = "static" /\ pc = "done"
    /\ list_slices = << << 2 >>, << 1, 0 >> >>
    /\ o_format_coil = "slicewise-coil" /\ coils = << 1 >>
    /\ written[1].rows = << << 21 >>, << 21 >>, << 11 >> >>

\* C22: in the chronological formats (chronological-coil, chronological-ch,
\* static and realtime) a file has one row per shim group, and row i holds the
\* coefficients of the i-th group of the slice-group list, whatever slices
\* the groups contain.
C22_ChronologicalRows ==
    (cli \in {"static", "realtime"} /\ pc \in {"output", "done"}) =>
        \A f \in 1..Len(written) :
            FormatOf(written[f]) \in {"chronological-coil", "chronological-ch"}
                => /\ Len(written[f].rows) = Len(list_slices)
                   /\ \A i \in 1..Len(list_slices) :
                          written[f].rows[i] = RowOfGroup(written[f], i)

\* three slices in two groups given out of order, written per trigger by the
\* realtime command: the scanner coil's x channel follows the 4 custom channels
C22_Witness ==
    /\ cli = "realtime" /\ pc = "done"
    /\ list_slices = << << 2 >>, << 1, 0 >> >>
    /\ o_format = "chronological-ch" /\ coils = << FirstOrderChannels >>
    /\ \E f \in 1..Len(written) :
           /\ written[f].coil = 1 /\ written[f].ch = 1
           /\ written[f].rows = << << 16, 116, 1 >>, << 26, 126, 1 >> >>

\* C23: realtime_cli given 'absolute' values in the 'eva' file format fails
\* with a ValueError before any other step: the logger level is not set, the
\* output directory is not created, no input is loaded, no slice is defined,
\* no optimization is run and no file is written.
C23_UnsupportedFirst ==
    (cli = "realtime" /\ output_value_format = "absolute" /\ o_format = "eva")
        => /\ pc \in {"start", "failed"}
           /\ pc = "failed" => error = [kind |-> "ValueError"]
           /\ Unprepared
           /\ nii_fmap_shape = << >> /\ fmap = << >>
           /\ initial_coefs = << >>
    /\ JsonNotLoaded
           /\ list_coils = << >> /\ list_slices = << >>
           /\ coefs = << >> /\ coefs_riro = << >>
           /\ written = << >>

\* the refusal comes before the check of the dimensions of the field map, of
\* the slice encode direction and of the fieldmap json, in a debug run
C23_Witness ==
    /\ cli = "realtime" /\ output_value_format = "absolute" /\ o_format = "eva"
    /\ pc = "failed" /\ error.kind = "ValueError"
    /\ verbose = "debug" /\ logger_level = "warning"
    /\ WrongDims /\ dim_info # SliceAxis /\ ~fname_json_isfile

\* C24: within one run of static_cli or realtime_cli no two files are written
\* to the same path: the files of different coils and channels have
\* different names, in every output file format.
C24_DistinctPaths ==
    cli \in {"static", "realtime"} =>
        \A f \in 1..Len(written) : \A g \in 1..Len(written) :
            f # g => written[f].fname # written[g].fname

\* C25: _get_current_shim_settings returns [int(ImagingFrequency * 1e6)]
\* followed by the ShimSetting values of the file, leaves
\* json_data['ShimSetting'] with the contents it was loaded with, and would
\* return the same list if called again on the same dictionary; the metadata
\* the commands hold afterwards (and realtime_cli passes to the sequencer) is
\* the metadata of the file.
C25_SettingsUnchanged ==
    (cli \in {"static", "realtime"} /\ json_coefs # << >>) =>
        /\ json_coefs = << IntOfF0(json_file.ImagingFrequency) >>
                            \o json_file.ShimSetting
        /\ Len(json_coefs) = Len(json_file.ShimSetting) + 1
        /\ json_fm_data.ShimSetting = json_file.ShimSetting
        /\ get_current_shim_settings(json_fm_data).returned = json_coefs
        /\ json_fm_data = json_file

====
